---------------------------- MODULE Spec2Model ----------------------------
(***************************************************************************)
(* Model of services/core/app.py (HealthShield): the personalized heat     *)
(* risk engine and its two entry points, IoT ingest (handle_iot) and the   *)
(* HTTP context/profile updates (handle_http).                             *)
(*                                                                         *)
(* Numbers.  The program computes in IEEE doubles; the model computes in   *)
(* fixed point.  Temperatures and heat indices are integers in micro       *)
(* degrees Fahrenheit (1e-6 F), normalised factors are integers in         *)
(* millionths, profile coefficients and wind speed are integers in         *)
(* thousandths, and the two stored loads are integers in ten-thousandths   *)
(* (the program rounds them to 4 decimals before storing them, so that is  *)
(* their exact stored form).  Products are formed exactly (Mul6) so that   *)
(* no intermediate value leaves the 32 bit range of the checker.           *)
(***************************************************************************)
EXTENDS Integers, Sequences, FiniteSets, TLC

\* ------------------------------------------------------------ arithmetic
Max(a, b) == IF a >= b THEN a ELSE b
Min(a, b) == IF a <= b THEN a ELSE b
Abs(a)    == IF a >= 0 THEN a ELSE 0 - a
Sign(a)   == IF a >= 0 THEN 1 ELSE 0 - 1

\* a / b rounded to the nearest integer (b > 0)
RoundDiv(a, b) == (2 * a + b) \div (2 * b)

\* floor(a * b / 10^6) for a, b >= 0, formed from the base-1000 digits of
\* a and b so that no partial product overflows
Mul6(a, b) ==
    LET a1 == a \div 1000  a0 == a % 1000
        b1 == b \div 1000  b0 == b % 1000
    IN  a1 * b1 + ((a1 * b0 + a0 * b1 + ((a0 * b0) \div 1000)) \div 1000)

\* signed version, truncating toward zero
SMul6(a, b) == Sign(a) * Sign(b) * Mul6(Abs(a), Abs(b))

\* ------------------------------------------------------------ dictionaries
\* Python dicts / DynamoDB items are functions from a set of keys
EmptyDict == [k \in {} |-> 0]
Has(d, k) == k \in DOMAIN d
Get(d, k, dflt) == IF k \in DOMAIN d THEN d[k] ELSE dflt
Update(d, e) ==
    [k \in (DOMAIN d) \cup (DOMAIN e) |-> IF k \in DOMAIN e THEN e[k] ELSE d[k]]
Without(d, k) == [j \in (DOMAIN d) \ {k} |-> d[j]]

\* ------------------------------------------------------------ utils: base HI
\* temp_c in whole degrees Celsius -> micro F
c_to_f(c) == c * 1800000 + 32000000

\* Rothfusz polynomial.  T_f in micro F (a multiple of 10^4), RH in whole
\* percent; every term is formed in units of 1e-5 F and the sum is returned
\* in micro F.
heat_index_f(T_f, RH) ==
    LET T  == T_f \div 10000          \* hundredths of a degree
        R  == RH
        TT == T * T
        RR == R * R
        t2 == Mul6(T, 2049015230)                      \* 2.04901523*T
        t3 == Mul6(R * 1000, 1014333127)               \* 10.14333127*R
        t4 == Mul6(T * R, 224755410)                   \* 0.22475541*T*R
        t5 == Mul6(TT, 683783) \div 10                 \* 6.83783e-3*T*T
        t6 == Mul6(RR * 1000, 5481717)                 \* 5.481717e-2*R*R
        t7 == Mul6(Mul6(TT, 1228740), R * 10000)       \* 1.22874e-3*T*T*R
        t8 == Mul6((T * 85282) \div 10, RR * 100)      \* 8.5282e-4*T*R*R
        t9 == Mul6(Mul6(TT, 199000), RR * 100)         \* 1.99e-6*T*T*R*R
    IN  (0 - 4237900 + t2 + t3 - t4 - t5 - t6 + t7 + t8 - t9) * 10

\* variant: the lower bounds taken as exclusive
bucket_from_hi_exclusive(h) ==
    IF h > 125000000 THEN "Red"
    ELSE IF h > 103000000 THEN "Orange"
    ELSE IF h > 90000000 THEN "Yellow"
    ELSE "Green"

bucket_from_hi(h) ==
    IF h >= 125000000 THEN "Red"
    ELSE IF h >= 103000000 THEN "Orange"
    ELSE IF h >= 90000000 THEN "Yellow"
    ELSE "Green"

next_break_eta(bucket) ==
    IF bucket = "Red" THEN 0
    ELSE IF bucket = "Orange" THEN 12
    ELSE 30

\* ------------------------------------------------------------ defaults & personalization
default_coeff ==
    [k_solar |-> 6000, k_wind |-> 4000, k_exertion |-> 3000, k_acclim |-> 0 - 2000,
     k_clothing |-> 2000, k_duration |-> 2000, k_thermal |-> 2000, k_dehyd |-> 1000]

default_profile ==
    [user_id |-> "demo_user", exertion_default |-> 2, acclim_days |-> 0,
     clothing |-> "normal", wind_mps |-> 1000, coeff |-> default_coeff]

\* variant: light and heavy exchanged
clothing_factor_swapped(clothing) ==
    IF clothing = "light" THEN 1000000
    ELSE IF clothing = "heavy" THEN 0
    ELSE 600000

\* in millionths: light 0.0, normal 0.6, heavy 1.0, anything else 0.6
clothing_factor(clothing) ==
    IF clothing = "light" THEN 0
    ELSE IF clothing = "heavy" THEN 1000000
    ELSE 600000

\* the process runs in UTC: datetime.fromtimestamp(ts).hour
solar_intensity_factor(ts_local, in_shade) ==
    LET hour0 == (ts_local \div 3600) % 24
        hour  == (hour0 - 4) % 24
        peak  == 13
        width == 6
        val0  == Max(0, 1000000 - RoundDiv(Abs(hour - peak) * 2000000, width))
        val   == IF in_shade THEN (val0 * 3) \div 10 ELSE val0
    IN  Min(1000000, Max(0, val))

\* coefficient k (thousandths) times a factor (millionths), in micro F
Term(k, norm) == SMul6(k * 1000, norm)

personalized_hi(hi_base_f, ts, profile, state) ==
    LET c          == Get(profile, "coeff", EmptyDict)
        k_solar    == Get(c, "k_solar", 6000)
        k_wind     == Get(c, "k_wind", 4000)
        k_exertion == Get(c, "k_exertion", 3000)
        k_acclim   == Get(c, "k_acclim", 0 - 2000)
        k_clo      == Get(c, "k_clothing", 2000)
        in_shade   == Get(state, "in_shade", FALSE)
        exertion   == Get(state, "exertion_level", Get(profile, "exertion_default", 2))
        acclim     == Get(profile, "acclim_days", 0)
        wind       == Get(profile, "wind_mps", 1000)
        clo_idx    == clothing_factor(Get(profile, "clothing", "normal"))
        solar         == solar_intensity_factor(ts, in_shade)
        wind_norm     == Min(Max(wind, 0), 4000) * 250
        exertion_norm == RoundDiv((Max(1, Min(exertion, 5)) - 2) * 1000000, 3)
        acclim_norm   == RoundDiv(Min(Max(acclim, 0), 14) * 1000000, 14)
        clo_norm      == clo_idx
        delta_f == Term(k_solar, solar) - Term(k_wind, wind_norm)
                   + Term(k_exertion, exertion_norm) + Term(k_acclim, acclim_norm)
                   + Term(k_clo, clo_norm)
    IN  hi_base_f + delta_f

\* ------------------------------------------------------------ cumulative loads
\* exp(-x) in millionths for x in millionths, 0 <= x <= 10^6 (dt <= 300 s and
\* tau >= 300 s): the Taylor series in Horner form, ExpTerms terms
ExpTerms == 12
RECURSIVE ExpHorner(_, _)
ExpHorner(x, k) ==
    IF k > ExpTerms THEN 1000000
    ELSE 1000000 - (Mul6(x, ExpHorner(x, k + 1)) \div k)
ExpNeg(x) == ExpHorner(x, 1)

\* prev, x in millionths; dt_s in seconds; tau_s in milliseconds
smooth(prev, x, dt_s, tau_s) ==
    LET tau   == Max(1000, tau_s)
        dt    == Max(0, dt_s)
        q     == (dt * 1000000) \div tau
        r     == (dt * 1000000) % tau
        ratio == q * 1000 + ((r * 1000) \div tau)      \* dt / tau
        alpha == 1000000 - ExpNeg(ratio)
    IN  prev + SMul6(alpha, x - prev)

\* variant: rounding without the clamp to [0,1]
ClampLoad_round_only(load) == RoundDiv(load, 100)

\* round(max(0.0, min(1.0, load)), 4): millionths -> ten-thousandths
ClampLoad(load) == RoundDiv(Max(0, Min(1000000, load)), 100)

\* variant: the stored counter is not carried over
SinceHyd_restart(state, dt) == dt \div 60

\* int(state.get("since_hydration_min", 0)) + int(dt/60)
SinceHyd(state, dt) == Get(state, "since_hydration_min", 0) + (dt \div 60)

\* returns the state as mutated by the call
update_cumulative_loads(state, ts_now, hi_base_f, exertion_level, in_shade, wind_mps) ==
    LET last_ts == Get(state, "last_update_ts", ts_now)
        dt      == Max(1, Min(ts_now - last_ts, 300))
        e_norm  == Max(0, RoundDiv((exertion_level - 2) * 1000000, 3))
        t_norm  == Max(0, RoundDiv(hi_base_f - 95000000, 30))
        wind_norm  == Min(Max(wind_mps, 0), 4000) * 250
        shade_norm == IF in_shade THEN 1000000 ELSE 0
        \* speedup in thousandths
        speedup == 1000 + ((6 * shade_norm + 4 * wind_norm) \div 10000)
        TAU_DUR == 600000000 \div speedup
        TAU_TH  == 1200000000 \div speedup
        duration_prev == Get(state, "duration_load", 0) * 100
        thermal_prev  == Get(state, "thermal_load", 0) * 100
        duration_load == smooth(duration_prev, e_norm, dt, TAU_DUR)
        thermal_load  == smooth(thermal_prev, t_norm, dt, TAU_TH)
        since_hyd     == SinceHyd(state, dt)
    IN  Update(state, [duration_load |-> ClampLoad(duration_load),
                       thermal_load  |-> ClampLoad(thermal_load),
                       last_update_ts |-> ts_now,
                       since_hydration_min |-> since_hyd])

\* ------------------------------------------------------------ nudges
NudgeWindow == 600

Eligible(new_bucket) == new_bucket \in {"Orange", "Red"}

\* variant: no rate limit
Suppressed_never(last_bucket, new_bucket, now, last_nudge) == FALSE

Suppressed(last_bucket, new_bucket, now, last_nudge) ==
    last_bucket = new_bucket /\ (now - last_nudge) < NudgeWindow

\* variant: the stamp is written before publish is attempted
AfterPublish_stamp_first(state_now, now, ok) == Update(state_now, [last_nudge_ts |-> now])

\* the try/except around sns.publish: ok is whether publish returned
AfterPublish(state_now, now, ok) ==
    IF ok THEN Update(state_now, [last_nudge_ts |-> now]) ELSE state_now

\* returns the state as mutated by the call and what happened to the alert
maybe_send_nudge(new_bucket, state_now, snsOn, now, ok) ==
    IF ~snsOn THEN [state |-> state_now, nudge |-> "none"]
    ELSE IF ~Eligible(new_bucket) THEN [state |-> state_now, nudge |-> "none"]
    ELSE LET last_bucket == Get(state_now, "last_bucket", "None")
             last_nudge  == Get(state_now, "last_nudge_ts", 0)
         IN  IF Suppressed(last_bucket, new_bucket, now, last_nudge)
             THEN [state |-> state_now, nudge |-> "none"]
             ELSE [state |-> AfterPublish(state_now, now, ok),
                   nudge |-> IF ok THEN "sent" ELSE "failed"]

\* ------------------------------------------------------------ persistence
\* variant: the attributes written are merged into the stored item
put_item_merge(old, new) == Update(old, new)

\* table.put_item replaces the whole item stored under the key
put_item(old, new) == new

\* readings are keyed by TS#ts: a second reading with the same ts replaces
put_reading(rs, ts, temp_c, rh, hi_f, hi_eff_f) ==
    {r \in rs : r.ts # ts} \cup
    {[ts |-> ts, temp_c |-> temp_c, rh_pct |-> rh, hi_f |-> hi_f, hi_eff_f |-> hi_eff_f]}

get_user_profile(item) == IF DOMAIN item = {} THEN default_profile ELSE item

\* ------------------------------------------------------------ handlers
\* variant: the two bounds applied in the other order
Clamp_upper_last(temp_f, hi, hi_eff) == Min(hi + 12000000, Max(temp_f, hi_eff))

\* max(temp_f, min(hi + 12.0, hi_eff))
Clamp(temp_f, hi, hi_eff) == Max(temp_f, Min(hi + 12000000, hi_eff))

WellFormed(msg) == {"device_id", "temp_c", "rh_pct"} \subseteq DOMAIN msg

\* the effective index of one sample before the clamp (personalized index
\* plus the cumulative penalties)
RawHiEff(hi, ts, prof, loaded) ==
    LET coeff   == Get(prof, "coeff", EmptyDict)
        k_dur   == Get(coeff, "k_duration", 2000)
        k_th    == Get(coeff, "k_thermal", 2000)
        k_dehyd == Get(coeff, "k_dehyd", 1000)
        H       == Min(1000000, RoundDiv(loaded.since_hydration_min * 1000000, 60))
    IN  personalized_hi(hi, ts, prof, loaded)
        + Term(k_dur, loaded.duration_load * 100)
        + Term(k_th, loaded.thermal_load * 100)
        + Term(k_dehyd, H)

\* state0 and profItem are the items read at the start; now is time.time();
\* ok is whether sns.publish returns.  The result holds everything the
\* handler writes or returns.
handle_iot(msg, state0, profItem, snsOn, now, ok) ==
    IF ~WellFormed(msg) THEN [status |-> "bad_payload"]
    ELSE
    LET ts       == Get(msg, "ts", now)
        temp_c   == msg.temp_c
        rh       == msg.rh_pct
        temp_f   == c_to_f(temp_c)
        hi       == heat_index_f(temp_f, rh)
        prof     == get_user_profile(profItem)
        in_shade == Get(state0, "in_shade", FALSE)
        exertion == Get(state0, "exertion_level", Get(prof, "exertion_default", 2))
        wind     == Get(prof, "wind_mps", 1000)
        loaded   == update_cumulative_loads(state0, ts, hi, exertion, in_shade, wind)
        hi_eff   == Clamp(temp_f, hi, RawHiEff(hi, ts, prof, loaded))
        bucket   == bucket_from_hi(hi_eff)
        eta      == next_break_eta(bucket)
        state1   == Update(loaded,
                      [updated_at |-> ts, user_id |-> "demo_user",
                       hi_nowcast_f |-> RoundDiv(hi_eff, 1000),
                       risk_bucket |-> bucket, next_break_eta_min |-> eta,
                       source |-> "sensor+personalized", last_bucket |-> bucket])
        sent     == maybe_send_nudge(bucket, state1, snsOn, now, ok)
    IN  [status |-> "ok", ts |-> ts, temp_c |-> temp_c, rh |-> rh,
         temp_f |-> temp_f, hi |-> hi, hi_eff |-> hi_eff,
         bucket |-> bucket, nudge |-> sent.nudge, state |-> sent.state]

\* POST /state: st is the item read at the start
post_state(body, st) ==
    LET s1 == IF Has(body, "in_shade")
              THEN Update(st, [in_shade |-> body.in_shade]) ELSE st
        s2 == IF Has(body, "exertion_level")
              THEN Update(s1, [exertion_level |-> Max(1, Min(body.exertion_level, 5))])
              ELSE s1
        s3 == IF Get(body, "hydrated_now", FALSE)
              THEN Update(s2, [since_hydration_min |-> 0]) ELSE s2
    IN  s3

\* POST /profile: profItem is the item read at the start
post_profile(body, profItem) ==
    Update(get_user_profile(profItem), Without(body, "user_id"))

\* ------------------------------------------------------------ the system
\* SNS_TOPIC_ARN is set in the deployment modelled, so the client exists
sns == TRUE

VARIABLES
    userState,     \* the STATE# item of demo_user (EmptyDict: no item)
    userProfile,   \* the PROFILE# item of demo_user (EmptyDict: no item)
    readings,      \* the SENSOR# items
    now,           \* time.time(), in seconds
    inv,           \* the invocations in flight (overlapping invocations only)
    log,           \* one entry per processed sample: bucket, time, alert
    last,          \* what the last finished invocation read, received and did
    steps          \* number of invocations started and clock advances

vars == <<userState, userProfile, readings, now, inv, log, last, steps>>

\* bounds of the model
\* invocations and clock advances in one behaviour
MaxSteps == 3

\* inputs
\* the clock starts at 16:55 UTC, five minutes before the hour of the solar peak
T0 == 17 * 3600 - 300
\* samples <<temp_c, rh_pct>>: one per bucket (Green, Yellow, Orange, Red with
\* the default profile); the first has base_hi_f + 12 below ambient_temp_f,
\* the second has base_hi_f below ambient_temp_f
Samples == {<<0 - 1, 0>>, <<35, 10>>, <<35, 50>>, <<50, 90>>}
\* samples that also arrive with a device timestamp
LagSamples == {<<35, 50>>, <<50, 90>>}
\* samples and context updates of the overlapping invocations
ConcSamples == {<<35, 50>>}
ConcBodies == {1, 2}
Slots   == {1, 2}

\* a message carries the device's timestamp, 200 s behind the clock, or none
Message(s, lagged) ==
    IF lagged
    THEN [device_id |-> "dev1", temp_c |-> s[1], rh_pct |-> s[2], ts |-> now - 200]
    ELSE [device_id |-> "dev1", temp_c |-> s[1], rh_pct |-> s[2]]

\* request bodies of POST /state and POST /profile
StateBodies == 1..3
StateBody(i) ==
    CASE i = 1 -> [hydrated_now |-> TRUE]
      [] i = 2 -> [in_shade |-> TRUE]
      [] i = 3 -> [exertion_level |-> 9]

ProfileBodies == 1..2
ProfileBody(i) ==
    CASE i = 1 -> [clothing |-> "heavy"]
      [] i = 2 -> [coeff |-> [k_clothing |-> 0 - 2000]]

Idle == [pc |-> "idle"]

Init ==
    /\ userState = EmptyDict
    /\ userProfile = EmptyDict
    /\ readings = {}
    /\ now = T0
    /\ inv = [i \in Slots |-> Idle]
    /\ log = <<>>
    /\ last = [op |-> "none"]
    /\ steps = 0

\* the writes of one run of handle_iot on the items it read (snap, prof)
FinishIot(msg, snap, prof, ok) ==
    /\ last' = [op |-> "iot", msg |-> msg, snap |-> snap, prof |-> prof,
                pre |-> userState, now |-> now,
                res |-> handle_iot(msg, snap, prof, sns, now, ok)]
    /\ LET r == last'.res
       IN  /\ readings' = put_reading(readings, r.ts, r.temp_c, r.rh, r.hi, r.hi_eff)
           /\ userState' = put_item(userState, r.state)
           /\ log' = Append(log, [bucket |-> r.bucket, t |-> now, nudge |-> r.nudge])

FinishState(body, snap) ==
    /\ userState' = put_item(userState, post_state(body, snap))
    /\ last' = [op |-> "state", body |-> body, snap |-> snap, pre |-> userState,
                now |-> now]

\* ---- one invocation at a time
HandleIot ==
    /\ steps < MaxSteps
    /\ \E s \in Samples, lagged \in BOOLEAN, ok \in BOOLEAN :
          /\ lagged => s \in LagSamples
          /\ FinishIot(Message(s, lagged), userState, userProfile, ok)
    /\ steps' = steps + 1
    /\ UNCHANGED <<userProfile, now, inv>>

HandleIotBad ==
    /\ steps < MaxSteps
    /\ LET msg == [device_id |-> "dev1", rh_pct |-> 50]
       IN  last' = [op |-> "iot", msg |-> msg, now |-> now,
                    res |-> handle_iot(msg, userState, userProfile, sns, now, TRUE)]
    /\ steps' = steps + 1
    /\ UNCHANGED <<userState, userProfile, readings, now, inv, log>>

PostState ==
    /\ steps < MaxSteps
    /\ \E b \in StateBodies : FinishState(StateBody(b), userState)
    /\ steps' = steps + 1
    /\ UNCHANGED <<userProfile, readings, now, inv, log>>

PostProfile ==
    /\ steps < MaxSteps
    /\ \E b \in ProfileBodies :
          /\ userProfile' = put_item(userProfile, post_profile(ProfileBody(b), userProfile))
          /\ last' = [op |-> "profile", body |-> ProfileBody(b), pre |-> userState,
                      now |-> now]
    /\ steps' = steps + 1
    /\ UNCHANGED <<userState, readings, now, inv, log>>

Tick ==
    /\ steps < MaxSteps
    /\ \E d \in {300, 600} : now' = now + d
    /\ steps' = steps + 1
    /\ UNCHANGED <<userState, userProfile, readings, inv, log, last>>

Next == HandleIot \/ HandleIotBad \/ PostState \/ PostProfile \/ Tick

Spec == Init /\ [][Next]_vars

\* ---- overlapping invocations: each reads the items at its start and
\* writes at its end
\* overlapping invocations in one behaviour
MaxInv == 4

BeginIot(i) ==
    /\ steps < MaxInv
    /\ inv[i].pc = "idle"
    /\ \A j \in Slots : j < i => inv[j].pc # "idle"
    /\ \E s \in ConcSamples, lagged \in BOOLEAN :
          inv' = [inv EXCEPT ![i] =
                    [pc |-> "iot",
                     msg |-> Update(Message(s, lagged), [ts |-> Get(Message(s, lagged), "ts", now)]),
                     snap |-> userState, prof |-> userProfile]]
    /\ steps' = steps + 1
    /\ UNCHANGED <<userState, userProfile, readings, now, log, last>>

BeginState(i) ==
    /\ steps < MaxInv
    /\ inv[i].pc = "idle"
    /\ \A j \in Slots : j < i => inv[j].pc # "idle"
    /\ \E b \in ConcBodies :
          inv' = [inv EXCEPT ![i] = [pc |-> "state", body |-> StateBody(b), snap |-> userState]]
    /\ steps' = steps + 1
    /\ UNCHANGED <<userState, userProfile, readings, now, log, last>>

EndIot(i) ==
    /\ inv[i].pc = "iot"
    /\ \E ok \in BOOLEAN : FinishIot(inv[i].msg, inv[i].snap, inv[i].prof, ok)
    /\ inv' = [inv EXCEPT ![i] = Idle]
    /\ UNCHANGED <<userProfile, now, steps>>

EndState(i) ==
    /\ inv[i].pc = "state"
    /\ FinishState(inv[i].body, inv[i].snap)
    /\ inv' = [inv EXCEPT ![i] = Idle]
    /\ UNCHANGED <<userProfile, readings, now, log, steps>>

NextConc == \E i \in Slots : BeginIot(i) \/ BeginState(i) \/ EndIot(i) \/ EndState(i)

SpecConc == Init /\ [][NextConc]_vars
\* ------------------------------------------------------------ properties
DictEq(a, b) == DOMAIN a = DOMAIN b /\ \A k \in DOMAIN a : a[k] = b[k]

\* the last finished invocation processed a sample to the end
LastIot == last.op = "iot" /\ last.res.status = "ok"

Since(d) == Get(d, "since_hydration_min", 0)

\* no alert was sent for the samples strictly between i and j
NoneSentBetween(i, j) == \A k \in (i + 1)..(j - 1) : log[k].nudge # "sent"

\* C1: after an alert sent for an Orange sample, a later Red sample processed
\* less than 600 s after that alert (no other alert in between) makes
\* maybe_send_nudge publish again, because the bucket changed.
C1_RefireOnBucketChange ==
    \A i, j \in 1..Len(log) :
        (/\ i < j
         /\ log[i].bucket = "Orange" /\ log[i].nudge = "sent"
         /\ log[j].bucket = "Red" /\ log[j].t - log[i].t < 600
         /\ NoneSentBetween(i, j))
        => log[j].nudge # "none"

\* C2: two alerts sent for the same bucket are at least 600 s apart; alerts
\* are sent only for Orange and Red; in Green, Orange, Orange with the second
\* Orange less than 600 s after the alert of the first, exactly one alert
\* is sent.
C2_NudgeSuppression ==
    /\ \A i, j \in 1..Len(log) :
          (i < j /\ log[i].nudge = "sent" /\ log[j].nudge = "sent"
                 /\ log[i].bucket = log[j].bucket)
          => log[j].t - log[i].t >= 600
    /\ \A i \in 1..Len(log) :
          log[i].nudge = "sent" => log[i].bucket \in {"Orange", "Red"}
    /\ \A k \in 1..(Len(log) - 2) :
          (/\ log[k].bucket = "Green"
           /\ log[k + 1].bucket = "Orange" /\ log[k + 1].nudge = "sent"
           /\ log[k + 2].bucket = "Orange"
           /\ log[k + 2].t - log[k + 1].t < 600)
          => (log[k].nudge # "sent" /\ log[k + 2].nudge # "sent")

C2_Witness ==
    /\ Len(log) >= 3
    /\ log[1].bucket = "Green" /\ log[1].nudge = "none"
    /\ log[2].bucket = "Orange" /\ log[2].nudge = "sent"
    /\ log[3].bucket = "Orange" /\ log[3].nudge = "none"
    /\ log[3].t - log[2].t < 600

\* C3 as stated: the effective index of every sample lies in
\* [ambient_temp_f, base_hi_f + 12].
C3_ClampInterval ==
    LastIot => /\ last.res.temp_f <= last.res.hi_eff
               /\ last.res.hi_eff <= last.res.hi + 12000000

\* C3 amended: hi_eff is never below ambient_temp_f; it is at most
\* base_hi_f + 12 whenever base_hi_f + 12 is not below ambient_temp_f, and it
\* equals ambient_temp_f otherwise; hi_nowcast_f stores it to 3 decimals.
C3_ClampAmended ==
    LastIot =>
        /\ last.res.temp_f <= last.res.hi_eff
        /\ last.res.hi + 12000000 >= last.res.temp_f
              => last.res.hi_eff <= last.res.hi + 12000000
        /\ last.res.hi + 12000000 < last.res.temp_f
              => last.res.hi_eff = last.res.temp_f
        /\ last.res.state.hi_nowcast_f * 1000 - last.res.hi_eff \in (0 - 500)..500

C3_Witness ==
    /\ LastIot
    /\ last.res.hi + 12000000 < last.res.temp_f
    /\ last.res.hi_eff = last.res.temp_f

\* C4: the stored duration_load and thermal_load lie in [0,1] after every
\* call of update_cumulative_loads.
C4_LoadBounds ==
    /\ Has(userState, "duration_load")
          => (userState.duration_load >= 0 /\ userState.duration_load <= 10000)
    /\ Has(userState, "thermal_load")
          => (userState.thermal_load >= 0 /\ userState.thermal_load <= 10000)

\* a sample whose thermal target is above 1 drove the load to the bound
C4_Witness ==
    /\ LastIot
    /\ last.res.hi > 125000000
    /\ Get(last.snap, "thermal_load", 0) < 10000
    /\ userState.thermal_load = 10000

\* C5: a sample whose timestamp equals or precedes the stored
\* last_update_ts leaves duration_load and thermal_load as they were.
C5_ZeroDtNoOp ==
    (LastIot /\ Has(last.snap, "last_update_ts")
             /\ last.res.ts <= last.snap.last_update_ts)
    => /\ last.res.state.duration_load = Get(last.snap, "duration_load", 0)
       /\ last.res.state.thermal_load = Get(last.snap, "thermal_load", 0)

\* C6: when publish raises, handle_iot still returns ok, the reading is
\* stored, and the stored state is the one a successful publish gives
\* except that last_nudge_ts keeps its previous value (or absence).
C6_PublishFailureNonFatal ==
    (LastIot /\ last.res.nudge = "failed") =>
        LET good == handle_iot(last.msg, last.snap, last.prof, sns, last.now, TRUE)
        IN  /\ last.res.status = "ok"
            /\ \E r \in readings :
                  /\ r.ts = last.res.ts /\ r.temp_c = last.msg.temp_c
                  /\ r.rh_pct = last.msg.rh_pct /\ r.hi_eff_f = last.res.hi_eff
            /\ good.nudge = "sent"
            /\ DictEq(Without(userState, "last_nudge_ts"),
                      Without(good.state, "last_nudge_ts"))
            /\ Has(userState, "last_nudge_ts") <=> Has(last.snap, "last_nudge_ts")
            /\ Has(userState, "last_nudge_ts")
                  => userState.last_nudge_ts = last.snap.last_nudge_ts
            /\ userState.last_update_ts = last.res.ts
            /\ userState.risk_bucket = last.res.bucket
            /\ userState.next_break_eta_min = next_break_eta(last.res.bucket)
            /\ userState.hi_nowcast_f = RoundDiv(last.res.hi_eff, 1000)
            /\ {"duration_load", "thermal_load", "since_hydration_min"}
                  \subseteq DOMAIN userState

C6_Witness ==
    /\ LastIot
    /\ last.res.nudge = "failed"
    /\ userState.risk_bucket \in {"Orange", "Red"}
    /\ ~Has(userState, "last_nudge_ts")

\* C7: since_hydration_min is never negative; a processed sample adds
\* floor(dt/60) with dt = clamp(ts - last_update_ts, 1, 300); a context update
\* with hydrated_now sets it to 0 and one without leaves it; nothing else
\* changes it, so it decreases only by such a reset.
C7_Step ==
    LET old == Since(userState)
        new == Since(userState')
        iot == last'.op = "iot" /\ last'.res.status = "ok" /\ last' # last
        ctx == last'.op = "state" /\ last' # last
        hyd == ctx /\ Get(last'.body, "hydrated_now", FALSE)
        ts  == last'.res.ts
        dt  == Max(1, Min(ts - Get(userState, "last_update_ts", ts), 300))
    IN  /\ new >= 0
        /\ iot => new = old + (dt \div 60)
        /\ hyd => new = 0
        /\ (ctx /\ ~hyd) => new = old
        /\ (~iot /\ ~ctx) => new = old
        /\ new < old => hyd

C7_HydrationCounter == [][C7_Step]_vars

\* a reset of a positive counter
C7_Witness ==
    /\ last.op = "state"
    /\ Get(last.body, "hydrated_now", FALSE)
    /\ Since(last.pre) > 0
    /\ Since(userState) = 0

\* C8: the bucket and the break delay stored for a sample are the threshold
\* functions of its hi_eff, with inclusive lower bounds 125, 103 and 90.
Rank(b) == CASE b = "Green" -> 0 [] b = "Yellow" -> 1 [] b = "Orange" -> 2 [] b = "Red" -> 3

Boundaries == {89990000, 90000000, 102990000, 103000000, 124990000, 125000000}

C8_Classification ==
    /\ bucket_from_hi(89990000) = "Green"   /\ bucket_from_hi(90000000) = "Yellow"
    /\ bucket_from_hi(102990000) = "Yellow" /\ bucket_from_hi(103000000) = "Orange"
    /\ bucket_from_hi(124990000) = "Orange" /\ bucket_from_hi(125000000) = "Red"
    /\ \A r1, r2 \in {r.hi_eff_f : r \in readings} \cup Boundaries :
          r1 <= r2 => Rank(bucket_from_hi(r1)) <= Rank(bucket_from_hi(r2))
    /\ LastIot =>
          LET h == last.res.hi_eff
              b == userState.risk_bucket
              e == userState.next_break_eta_min
          IN  /\ h >= 125000000 => (b = "Red" /\ e = 0)
              /\ (h >= 103000000 /\ h < 125000000) => (b = "Orange" /\ e = 12)
              /\ (h >= 90000000 /\ h < 103000000) => (b = "Yellow" /\ e = 30)
              /\ h < 90000000 => (b = "Green" /\ e = 30)

C8_Witness ==
    /\ Len(log) >= 2
    /\ Rank(log[1].bucket) < Rank(log[2].bucket)
    /\ userState.risk_bucket = "Orange"
    /\ userState.next_break_eta_min = 12

\* the last sample processed again with the clothing of the profile replaced
HiEffWith(clothing) ==
    handle_iot(last.msg, last.snap,
               Update(get_user_profile(last.prof), [clothing |-> clothing]),
               sns, last.now, TRUE).hi_eff

KClothing == Get(Get(get_user_profile(last.prof), "coeff", EmptyDict), "k_clothing", 2000)

\* C9 as stated: heavy clothing gives a strictly greater hi_eff than light
\* clothing for every sample, state and profile.
C9_HeavyStrictlyGreater == LastIot => HiEffWith("heavy") > HiEffWith("light")

\* C9 amended: with a positive k_clothing, heavy never gives less than
\* light, and gives strictly more unless both results sit on the same bound
\* of the clamp (ambient_temp_f or base_hi_f + 12).
C9_HeavyAmended ==
    (LastIot /\ KClothing > 0) =>
        LET heavy == HiEffWith("heavy")
            light == HiEffWith("light")
        IN  /\ heavy >= light
            /\ heavy = light
                  => light \in {last.res.temp_f, last.res.hi + 12000000}

C9_Witness ==
    /\ LastIot
    /\ KClothing > 0
    /\ HiEffWith("heavy") > HiEffWith("light")
    /\ HiEffWith("light") > last.res.temp_f

\* C10: an invocation writes the state it computed from the item it read at
\* its start, whatever has been stored since; the item stored after a write
\* is exactly what that writer computed.
C10_LastWriterWins ==
    /\ last.op = "iot" => DictEq(userState, last.res.state)
    /\ last.op = "state" => DictEq(userState, post_state(last.body, last.snap))

\* a hydration reset stored between the read and the write of a sample is
\* lost: the sample writes back the count it read
C10_Witness ==
    /\ last.op = "iot"
    /\ Since(last.snap) > 0
    /\ Has(last.pre, "since_hydration_min") /\ last.pre.since_hydration_min = 0
    /\ Since(userState) = Since(last.snap)
=============================================================================
